---- MODULE Spec2Model ----
(***************************************************************************)
(* AddressInput (src/src/ui/components/Input/index.tsx): the address / name *)
(* input of the wallet.  A text is a sequence of tokens, '' is <<>>.  The   *)
(* component's React state is the record `state`.  A handler reads the      *)
(* state of the render that created it (resetState in a promise callback    *)
(* reads the render of its keystroke) and its set-calls are committed as    *)
(* one render (React 18 batching, also in promise callbacks); the effect on *)
(* [validAddress] runs with that commit.  then, catch and finally of one    *)
(* promise run back to back, before the next event.                         *)
(***************************************************************************)
EXTENDS Integers, Sequences, FiniteSets, TLC

VARIABLES
    props,       \* props.addressInputData of the mounted component
    mounted,     \* the first render has been committed and its effects have run
    state,       \* the useState cells of AddressInput
    inflight,    \* queryDomainInfo promises not yet settled, with what their callbacks captured
    safe,        \* the configured SAFE_DOMAIN_CONFIRMATION
    calls,       \* number of onAddressInputChange invocations
    lastCall,    \* the argument of the most recent onAddressInputChange invocation
    gen,         \* history: number of keystrokes handled
    latest,      \* history: the latest keystroke's input, branch and lookup result, and
                 \*          whether no lookup was in flight when it was typed
    lastEvent,   \* history: what the last step was, and whether it called isValid
    previous     \* history: the keystroke before the latest, and the state it ended in

vars == <<props, mounted, state, inflight, safe, calls, lastCall, gen, latest, lastEvent, previous>>

\* ---------------------------------------------------------------- bounds
MaxKeys == 3

\* ---------------------------------------------------------------- texts
Empty == <<>>

Truthy(s) == s # Empty

ALICE == <<"alice", ".", "sats">>
BOB == <<"Bob", ".", "SATS">>
UNKNOWN == <<"alice", ".", "unknown">>
ADDR1 == <<"bc1qabc">>
ADDR2 == <<"bc1qxyz">>
BAD == <<"nonsense">>

\* what the user may type
Inputs == {Empty, ALICE, BOB, UNKNOWN, ADDR1, BAD}

\* the addresses the registry may name as owner
Owners == {ADDR1, ADDR2}

toLowerCaseToken(t) == IF t = "Bob" THEN "bob" ELSE IF t = "SATS" THEN "sats" ELSE t

toLowerCase(s) == [i \in DOMAIN s |-> toLowerCaseToken(s[i])]

encodeURIComponentToken(t) == IF t = " " THEN "%20" ELSE t

encodeURIComponent(s) == [i \in DOMAIN s |-> encodeURIComponentToken(s[i])]

\* ---------------------------------------------------------- collaborators
SUPPORTED_DOMAINS == <<"sats", "unicash", "btc">>

SafeChoices == {2, 3, 4}

NoName == [match |-> FALSE, prefix |-> Empty, suffix |-> ""]

\* <label>.<suffix>: a non-empty label, a dot, one suffix word
getSatsName(s) ==
    IF /\ Len(s) >= 3
       /\ s[Len(s) - 1] = "."
       /\ s[Len(s)] # "."
       /\ s[1] # "."
    THEN [match |-> TRUE, prefix |-> SubSeq(s, 1, Len(s) - 2), suffix |-> s[Len(s)]]
    ELSE NoName

includes(list, x) == \E i \in DOMAIN list : list[i] = x

isValid(s) == s \in {ADDR1, ADDR2}

\* an absent inscription (undefined)
Undefined == [address |-> Empty, utxoConfirmation |-> -1]

Inscriptions(th) == [address : Owners, utxoConfirmation : {th - 1, th}]

NoError == <<"">>

\* what a queryDomainInfo promise may settle with
Results(th) ==
    {[kind |-> "null", inscription |-> Undefined, message |-> NoError],
     [kind |-> "reject", inscription |-> Undefined, message |-> <<"Network Error">>]}
    \cup {[kind |-> "found", inscription |-> i, message |-> NoError] : i \in Inscriptions(th)}

\* ------------------------------------------------------------ the state
\* useState initialisers, from props.addressInputData
InitialState(addressInputData) ==
    [validAddress |-> addressInputData.address,
     parseAddress |-> IF Truthy(addressInputData.domain) THEN addressInputData.address ELSE Empty,
     parseError   |-> Empty,
     formatError  |-> Empty,
     inputVal     |-> IF Truthy(addressInputData.domain) THEN addressInputData.domain
                                                          ELSE addressInputData.address,
     inscription  |-> Undefined,
     parseName    |-> Empty,
     searching    |-> FALSE]

\* the props the component may be mounted with
AddressInputData == [address : {Empty, ADDR1}, domain : {Empty, ALICE}]

\* what resetState reads of the render it was created in
Closure(st) ==
    [parseError   |-> Truthy(st.parseError),
     parseAddress |-> Truthy(st.parseAddress),
     formatError  |-> Truthy(st.formatError),
     validAddress |-> Truthy(st.validAddress),
     inscription  |-> st.inscription # Undefined]

\* resetState without its formatError branch
resetState_KeepsFormatError(c, st) ==
    [st EXCEPT !.parseError   = IF c.parseError THEN Empty ELSE @,
               !.parseAddress = IF c.parseAddress THEN Empty ELSE @,
               !.validAddress = IF c.validAddress THEN Empty ELSE @,
               !.inscription  = IF c.inscription THEN Undefined ELSE @,
               !.parseName    = Empty]

\* resetState of the render with closure c, applied to the pending state st
resetState(c, st) ==
    [st EXCEPT !.parseError   = IF c.parseError THEN Empty ELSE @,
               !.parseAddress = IF c.parseAddress THEN Empty ELSE @,
               !.formatError  = IF c.formatError THEN Empty ELSE @,
               !.validAddress = IF c.validAddress THEN Empty ELSE @,
               !.inscription  = IF c.inscription THEN Undefined ELSE @,
               !.parseName    = Empty]

\* the argument with the 'name resolved' marker as domain
Payload_Suffix(st) ==
    [address     |-> st.validAddress,
     domain      |-> st.parseName,
     inscription |-> st.inscription]

\* the argument the effect hands to onAddressInputChange
Payload(st) ==
    [address     |-> st.validAddress,
     domain      |-> IF Truthy(st.parseAddress) THEN st.inputVal ELSE Empty,
     inscription |-> st.inscription]

\* a dependency list of [inputVal]
DepsChanged_InputVal(old, new) == old.inputVal # new.inputVal

\* the effect's dependency list [validAddress] differs between two renders
DepsChanged(old, new) == old.validAddress # new.validAddress

NoCall == [address |-> <<"-">>, domain |-> <<"-">>, inscription |-> Undefined]

\* the commit of a render: the effect runs when its dependencies changed
useEffect ==
    IF DepsChanged(state, state')
    THEN /\ calls' = calls + 1
         /\ lastCall' = Payload(state')
    ELSE UNCHANGED <<calls, lastCall>>

\* ------------------------------------------------------------- messages
RECURSIVE JoinNames(_, _)
\* the loop over names: '', ', ' and ' and ' before the i-th name
JoinNames(names, i) ==
    IF i > Len(names) THEN Empty
    ELSE (IF i = 1 THEN Empty
          ELSE IF i < Len(names) THEN <<", ">>
          ELSE <<" and ">>)
         \o names[i] \o JoinNames(names, i + 1)

UnsupportedMessage ==
    LET names == [i \in DOMAIN SUPPORTED_DOMAINS |-> <<".", SUPPORTED_DOMAINS[i]>>]
    IN  <<"Currently only ">> \o JoinNames(names, 1) \o <<" are supported.">>

InvalidMessage == <<"Recipient address is invalid">>

NotExistMessage(inputAddress) == inputAddress \o <<" does not exist">>

\* the template's tokens: text, ${inscription.utxoConfirmation}, '/', the literal 3, ').'
WaitMessage(inscription) ==
    <<"This domain has been transferred or inscribed recently. Please wait for block confirmations (",
      ToString(inscription.utxoConfirmation), "/", "3", ").">>

ErrMessage(err, inputAddress) == err \o <<" for ">> \o inputAddress

\* ------------------------------------------------------------- handlers
\* the confirmation check of the then handler
Unconfirmed(inscription, th) == inscription.utxoConfirmation < th

\* handleInputAddress returning after the reset when the text is the one already held
handleInputAddress_SkipsSameInput(st, inputAddress) ==
    LET s1 == [st EXCEPT !.inputVal = inputAddress]
        s2 == resetState(Closure(st), s1)
        teststr == toLowerCase(inputAddress)
        satsname == getSatsName(teststr)
    IN  IF inputAddress = st.inputVal THEN s2
        ELSE IF satsname.match
        THEN IF includes(SUPPORTED_DOMAINS, satsname.suffix)
             THEN [s2 EXCEPT !.searching = TRUE]
             ELSE [s2 EXCEPT !.formatError = UnsupportedMessage]
        ELSE IF ~isValid(inputAddress)
             THEN [s2 EXCEPT !.formatError = InvalidMessage]
             ELSE [s2 EXCEPT !.validAddress = inputAddress]

\* handleInputAddress with the unsupported-suffix branch falling through to the address check
handleInputAddress_ValidatesUnsupported(st, inputAddress) ==
    LET s1 == [st EXCEPT !.inputVal = inputAddress]
        s2 == resetState(Closure(st), s1)
        teststr == toLowerCase(inputAddress)
        satsname == getSatsName(teststr)
    IN  IF satsname.match /\ includes(SUPPORTED_DOMAINS, satsname.suffix)
        THEN [s2 EXCEPT !.searching = TRUE]
        ELSE IF ~isValid(inputAddress)
             THEN [s2 EXCEPT !.formatError = InvalidMessage]
             ELSE [s2 EXCEPT !.validAddress = inputAddress]

\* the synchronous part of handleInputAddress, in the render whose state is st
handleInputAddress(st, inputAddress) ==
    LET s1 == [st EXCEPT !.inputVal = inputAddress]
        s2 == resetState(Closure(st), s1)
        teststr == toLowerCase(inputAddress)
        satsname == getSatsName(teststr)
    IN  IF satsname.match
        THEN IF includes(SUPPORTED_DOMAINS, satsname.suffix)
             THEN [s2 EXCEPT !.searching = TRUE]
             ELSE [s2 EXCEPT !.formatError = UnsupportedMessage]
        ELSE IF ~isValid(inputAddress)
             THEN [s2 EXCEPT !.formatError = InvalidMessage]
             ELSE [s2 EXCEPT !.validAddress = inputAddress]

\* the resolver branch without the SUPPORTED_DOMAINS test
CallsResolver_AnySuffix(inputAddress) == getSatsName(toLowerCase(inputAddress)).match

\* the resolver branch decided on the input as typed, not lower-cased
CallsResolver_AsTyped(inputAddress) ==
    LET satsname == getSatsName(inputAddress)
    IN  satsname.match /\ includes(SUPPORTED_DOMAINS, satsname.suffix)

\* the keystroke calls wallet.queryDomainInfo
CallsResolver(inputAddress) ==
    LET satsname == getSatsName(toLowerCase(inputAddress))
    IN  satsname.match /\ includes(SUPPORTED_DOMAINS, satsname.suffix)

\* the keystroke calls bitcore.Address.isValid
CallsValidator(inputAddress) == ~getSatsName(toLowerCase(inputAddress)).match

\* the promise and what its then/catch/finally callbacks captured
Lookup(st, inputAddress, g) ==
    [gen          |-> g,
     inputAddress |-> inputAddress,
     query        |-> encodeURIComponent(inputAddress),
     suffix       |-> getSatsName(toLowerCase(inputAddress)).suffix,
     closure      |-> Closure(st)]

\* .then((inscription) => ...) of lookup l settling with inscription
thenHandler(l, st, inscription, th) ==
    LET s1 == resetState(l.closure, st)
    IN  IF inscription = Undefined
        THEN [s1 EXCEPT !.parseError = NotExistMessage(l.inputAddress)]
        ELSE LET s2 == [s1 EXCEPT !.inscription = inscription]
             IN  IF Unconfirmed(inscription, th)
                 THEN [s2 EXCEPT !.parseError = WaitMessage(inscription)]
                 ELSE [s2 EXCEPT !.parseAddress = inscription.address,
                                 !.validAddress = inscription.address,
                                 !.parseName = <<l.suffix>>]

\* .catch((err) => ...)
catchHandler(l, st, err) == [st EXCEPT !.formatError = ErrMessage(err, l.inputAddress)]

\* .finally(() => ...)
finallyHandler(st) == [st EXCEPT !.searching = FALSE]

\* the whole chain for lookup l settling with result r
settle(l, st, r, th) ==
    finallyHandler(IF r.kind = "reject"
                   THEN catchHandler(l, st, r.message)
                   ELSE thenHandler(l, st, r.inscription, th))

\* -------------------------------------------------------------- history
NoResult == [kind |-> "none", inscription |-> Undefined, message |-> NoError]

Pending == [kind |-> "pending", inscription |-> Undefined, message |-> NoError]

\* the branch of handleInputAddress a keystroke takes
Branch(inputAddress) ==
    IF CallsResolver(inputAddress) THEN "lookup"
    ELSE IF ~CallsValidator(inputAddress) THEN "unsupported"
    ELSE IF isValid(inputAddress) THEN "plain"
    ELSE "invalid"

\* -------------------------------------------------------------- actions
Init ==
    /\ mounted = FALSE
    /\ props \in AddressInputData
    /\ state = InitialState(props)
    /\ inflight = {}
    /\ safe \in SafeChoices
    /\ calls = 0
    /\ lastCall = NoCall
    /\ gen = 0
    /\ latest = [input |-> Empty, branch |-> "none", result |-> NoResult, quiet |-> TRUE]
    /\ previous = [input |-> Empty, result |-> NoResult, quiet |-> FALSE,
                   state |-> InitialState([address |-> Empty, domain |-> Empty])]
    /\ lastEvent = [type |-> "init", gen |-> 0, validator |-> FALSE]

\* the first commit: every effect runs once
Mount ==
    /\ ~mounted
    /\ mounted' = TRUE
    /\ calls' = calls + 1
    /\ lastCall' = Payload(state)
    /\ lastEvent' = [type |-> "mount", gen |-> 0, validator |-> FALSE]
    /\ UNCHANGED <<props, state, inflight, safe, gen, latest, previous>>

\* onChange of the input element: one keystroke
Keystroke ==
    /\ mounted
    /\ gen < MaxKeys
    /\ \E inputAddress \in Inputs :
        /\ state' = handleInputAddress(state, inputAddress)
        /\ inflight' = IF CallsResolver(inputAddress)
                       THEN inflight \cup {Lookup(state, inputAddress, gen + 1)}
                       ELSE inflight
        /\ latest' = [input  |-> inputAddress,
                      branch |-> Branch(inputAddress),
                      result |-> IF CallsResolver(inputAddress) THEN Pending ELSE NoResult,
                      quiet  |-> inflight = {}]
        /\ lastEvent' = [type |-> "key", gen |-> gen + 1,
                         validator |-> CallsValidator(inputAddress)]
    /\ previous' = [input |-> latest.input, result |-> latest.result,
                    quiet |-> gen > 0 /\ latest.quiet, state |-> state]
    /\ gen' = gen + 1
    /\ UNCHANGED <<props, mounted, safe>>
    /\ useEffect

\* a queryDomainInfo promise settles and its callbacks run
Settle ==
    /\ \E l \in inflight : \E r \in Results(safe) :
        /\ state' = settle(l, state, r, safe)
        /\ inflight' = inflight \ {l}
        /\ latest' = IF l.gen = gen THEN [latest EXCEPT !.result = r] ELSE latest
        /\ lastEvent' = [type |-> "settle", gen |-> l.gen, validator |-> FALSE]
    /\ UNCHANGED <<props, mounted, safe, gen, previous>>
    /\ useEffect

Next == Mount \/ Keystroke \/ Settle

Spec == Init /\ [][Next]_vars

\* every promise eventually settles
FairSpec == Spec /\ WF_vars(Settle)

\* --------------------------------------------------------------- claims
\* the step just taken settled the lookup of the latest keystroke
LatestSettled == lastEvent.type = "settle" /\ lastEvent.gen = gen

Neutral == InitialState([address |-> Empty, domain |-> Empty])

\* C1: a completion of a lookup started before the latest keystroke changes
\* no state of the controller.
C1_StaleCompletionChangesNothing ==
    [][(lastEvent'.type = "settle" /\ lastEvent'.gen < gen') => state' = state]_vars

\* C2: a non-empty resolved address is the latest input itself (a valid plain
\* address) or the owner address of the record returned for the latest
\* input's own lookup.
C2_ResolvedAddressBelongsToLatestInput ==
    (gen > 0 /\ Truthy(state.validAddress)) =>
        \/ latest.branch = "plain" /\ state.validAddress = latest.input
        \/ /\ latest.result.kind = "found"
           /\ state.validAddress = latest.result.inscription.address

\* C3: while the retained record has fewer confirmations than the threshold,
\* the resolved address is empty and the callback holds no address.
C3_UntrustedRecordHasNoAddress ==
    (state.inscription # Undefined /\ state.inscription.utxoConfirmation < safe) =>
        (state.validAddress = Empty /\ (calls > 0 => lastCall.address = Empty))

\* C4: the searching flag is true exactly when the lookup started by the
\* latest keystroke is still outstanding.
C4_SearchingIffLatestLookupOutstanding ==
    mounted => (state.searching <=> latest.result.kind = "pending")

\* C5: at most one outcome is live: a resolved address, a format error and a
\* not-found/unconfirmed error never coexist.
C5_AtMostOneOutcome ==
    /\ ~(Truthy(state.validAddress) /\ Truthy(state.formatError))
    /\ ~(Truthy(state.validAddress) /\ Truthy(state.parseError))
    /\ ~(Truthy(state.formatError) /\ Truthy(state.parseError))

\* what the latest keystroke's own synchronous branch sets
OwnAddress == IF latest.branch = "plain" THEN latest.input ELSE Empty

OwnFormatError ==
    IF latest.branch = "invalid" THEN InvalidMessage
    ELSE IF latest.branch = "unsupported" THEN UnsupportedMessage
    ELSE Empty

\* C6: right after a keystroke the errors, the record and the address left by
\* earlier keystrokes are cleared, except for what the keystroke's own branch
\* sets; and while the searching flag is up for the latest input's
\* outstanding lookup, no address, record or error is shown.
C6_KeystrokeClearsDerivedState ==
    /\ lastEvent.type = "key" =>
        /\ state.parseError = Empty
        /\ state.inscription = Undefined
        /\ state.parseAddress = Empty
        /\ state.parseName = Empty
        /\ state.validAddress = OwnAddress
        /\ state.formatError = OwnFormatError
    /\ (state.searching /\ latest.result.kind = "pending") =>
        /\ state.parseError = Empty
        /\ state.formatError = Empty
        /\ state.inscription = Undefined
        /\ state.parseAddress = Empty
        /\ state.validAddress = Empty

\* a keystroke that started a lookup has just cleared an address delivered earlier
C6_Witness ==
    /\ lastEvent.type = "key"
    /\ latest.branch = "lookup"
    /\ state.searching
    /\ calls >= 3
    /\ lastCall.address = Empty
    /\ Cardinality(inflight) >= 2

\* the state the latest input and its own lookup result produce by themselves
FinalStateOfLatest ==
    IF latest.branch = "lookup"
    THEN settle(Lookup(Neutral, latest.input, gen),
                handleInputAddress(Neutral, latest.input), latest.result, safe)
    ELSE handleInputAddress(Neutral, latest.input)

\* C7: once every started lookup has completed, the controller is out of
\* Searching and in the state determined by the last input and that input's
\* own lookup result, whatever the order of completion.
C7_FinalStateDeterminedByLastInput ==
    (gen > 0 /\ inflight = {}) => (~state.searching /\ state = FinalStateOfLatest)

\* C8: after the mount, onAddressInputChange is invoked exactly once per
\* change of the resolved address, with the address, domain and record of the
\* new render, and not at all when the address keeps its value.
C8_CallbackOncePerAddressChange ==
    [][mounted =>
        IF state'.validAddress # state.validAddress
        THEN /\ calls' = calls + 1
             /\ lastCall'.address = state'.validAddress
             /\ lastCall'.domain =
                    (IF Truthy(state'.parseAddress) THEN state'.inputVal ELSE Empty)
             /\ lastCall'.inscription = state'.inscription
        ELSE calls' = calls /\ lastCall' = lastCall]_vars

\* the callback has fired for a change to a name's owner and for a change to empty
C8_Witness ==
    /\ calls >= 4
    /\ lastCall.address = Empty
    /\ state.validAddress = Empty
    /\ lastEvent.type = "key"

\* the latest keystroke's lookup has just returned a record with enough confirmations
TrustedSettled ==
    /\ LatestSettled
    /\ latest.result.kind = "found"
    /\ latest.result.inscription.utxoConfirmation >= safe

\* C9 as stated: after the latest input's lookup returns a trusted record the
\* resolved address is the record's owner address and the domain delivered to
\* the callback is the matched suffix.
C9_CallbackDomainIsSuffix ==
    TrustedSettled =>
        /\ state.validAddress = latest.result.inscription.address
        /\ lastCall.address = latest.result.inscription.address
        /\ lastCall.domain = <<getSatsName(toLowerCase(latest.input)).suffix>>

\* C9 amended: when the latest input's lookup returns a trusted record, the
\* resolved address is the record's owner address, the matched suffix is the
\* 'name resolved' marker, and the domain delivered to the callback is the
\* input as typed.
C9_CallbackDomainIsInput ==
    TrustedSettled =>
        /\ state.validAddress = latest.result.inscription.address
        /\ state.parseName = <<getSatsName(toLowerCase(latest.input)).suffix>>
        /\ ~state.searching
        /\ lastCall.address = latest.result.inscription.address
        /\ lastCall.domain = latest.input

\* 'Bob.sats' has resolved to its owner and the callback holds 'Bob.sats'
C9_Witness ==
    /\ TrustedSettled
    /\ latest.input = BOB
    /\ lastCall.domain = BOB
    /\ state.parseName = <<"sats">>
    /\ lastCall.address = ADDR2

\* C10: the record of the latest input's lookup is trusted iff its
\* confirmations reach the configured threshold, and the message of an
\* untrusted one reports confirmations/threshold.
C10_GateReportsConfiguredThreshold ==
    (LatestSettled /\ latest.result.kind = "found") =>
        LET i == latest.result.inscription
        IN  /\ (state.validAddress = i.address) <=> (i.utxoConfirmation >= safe)
            /\ i.utxoConfirmation < safe =>
                /\ Len(state.parseError) = 5
                /\ state.parseError[2] = ToString(i.utxoConfirmation)
                /\ state.parseError[3] = "/"
                /\ state.parseError[4] = ToString(safe)

\* C11: a keystroke that leaves the input empty clears the address, the
\* record and both error messages, and shows no error (Idle).
C11_EmptyInputShowsNoError ==
    (lastEvent.type = "key" /\ latest.input = Empty) =>
        /\ state.validAddress = Empty
        /\ state.inscription = Undefined
        /\ state.parseError = Empty
        /\ state.formatError = Empty

\* text s ends with text t
EndsWith(s, t) == Len(s) >= Len(t) /\ SubSeq(s, Len(s) - Len(t) + 1, Len(s)) = t

\* text s starts with text t
StartsWith(s, t) == Len(s) >= Len(t) /\ SubSeq(s, 1, Len(t)) = t

\* C12: when the latest keystroke's lookup ends not-found the not-found
\* error is '<input> does not exist'; when it fails the format error is the
\* failure text joined with the input; either way the searching flag is
\* cleared, the resolved address is empty and no new resolver call is made.
C12_LatestLookupErrorOutcome ==
    (LatestSettled /\ latest.result.kind \in {"null", "reject"}) =>
        /\ latest.result.kind = "null" =>
               state.parseError = latest.input \o <<" does not exist">>
        /\ latest.result.kind = "reject" =>
               /\ StartsWith(state.formatError, latest.result.message)
               /\ EndsWith(state.formatError, latest.input)
        /\ ~state.searching
        /\ state.validAddress = Empty
        /\ \A l \in inflight : l.gen < gen

\* text s names suffix v as '.v'
ListsSuffix(s, v) == \E k \in 1..(Len(s) - 1) : s[k] = "." /\ s[k + 1] = v

\* C13: a keystroke calls the resolver iff the lower-cased input parses as
\* label.suffix with a supported suffix; a name with an unsupported suffix
\* gives a format error listing every supported suffix and no resolver call;
\* a valid plain address becomes the resolved address with no resolver call.
C13_ResolverCalledIffSupportedName ==
    [][gen' = gen + 1 =>
        LET inp == latest'.input
            n == getSatsName(toLowerCase(inp))
            supported == n.match /\ includes(SUPPORTED_DOMAINS, n.suffix)
        IN  /\ inflight \subseteq inflight'
            /\ (inflight' # inflight) <=> supported
            /\ supported =>
                /\ Cardinality(inflight' \ inflight) = 1
                /\ \A l \in inflight' \ inflight : l.inputAddress = inp
            /\ (n.match /\ ~supported) =>
                /\ StartsWith(state'.formatError, <<"Currently only ">>)
                /\ \A i \in DOMAIN SUPPORTED_DOMAINS :
                       ListsSuffix(state'.formatError, SUPPORTED_DOMAINS[i])
                /\ state'.validAddress = Empty
            /\ (~n.match /\ isValid(inp)) =>
                /\ state'.validAddress = inp
                /\ state'.formatError = Empty
                /\ state'.parseError = Empty]_vars

\* 'alice.unknown' was refused while the lookup of 'Bob.SATS' is the only call made
C13_Witness ==
    /\ lastEvent.type = "key"
    /\ latest.input = UNKNOWN
    /\ StartsWith(state.formatError, <<"Currently only ">>)
    /\ Cardinality(inflight) = 1
    /\ \A l \in inflight : l.inputAddress = BOB
    /\ gen = 3

\* C14: a keystroke whose input parses as a name never calls the address
\* validator and never ends in 'Recipient address is invalid'; an input with
\* no name match is validated: valid gives the input as resolved address with
\* no domain, invalid gives the format error 'Recipient address is invalid'.
C14_NameTakesPrecedenceOverAddressCheck ==
    lastEvent.type = "key" =>
        LET n == getSatsName(toLowerCase(latest.input))
        IN  /\ n.match =>
                /\ ~lastEvent.validator
                /\ state.formatError # InvalidMessage
                /\ state.validAddress = Empty
            /\ ~n.match =>
                /\ lastEvent.validator
                /\ isValid(latest.input) =>
                    /\ state.validAddress = latest.input
                    /\ state.parseAddress = Empty
                    /\ state.parseName = Empty
                    /\ state.formatError = Empty
                /\ ~isValid(latest.input) =>
                    /\ state.validAddress = Empty
                    /\ state.formatError = <<"Recipient address is invalid">>

\* a name was typed after a plain address had been validated and delivered
C14_Witness ==
    /\ lastEvent.type = "key"
    /\ latest.input = BOB
    /\ ~lastEvent.validator
    /\ state.searching
    /\ calls = 3
    /\ lastCall.address = Empty
    /\ Cardinality(inflight) = 1

\* the latest two keystrokes typed the same text, each with no lookup in
\* flight when typed, and both resolutions are complete with the same answer
ResolvedTwice ==
    /\ gen >= 2
    /\ previous.quiet
    /\ latest.quiet
    /\ inflight = {}
    /\ previous.input = latest.input
    /\ previous.result = latest.result

\* C15: resolving the same input twice in sequence, without interleaving and
\* with the same resolver answer, ends in the same address, domain, record
\* and flags as the first resolution.
C15_ResolvingTwiceIsIdempotent ==
    ResolvedTwice =>
        /\ state = previous.state
        /\ Payload(state) = Payload(previous.state)

\* 'alice.sats' has resolved twice in a row to a trusted record owned by bc1qabc
C15_Witness ==
    /\ ResolvedTwice
    /\ latest.input = ALICE
    /\ latest.result.kind = "found"
    /\ state.validAddress = ADDR1
    /\ previous.state.validAddress = ADDR1
    /\ calls >= 4

\* C16 as stated: at most one resolver call is outstanding at any moment.
C16_AtMostOneOutstanding == Cardinality(inflight) <= 1

\* C16 amended: every outstanding resolver call was issued by a keystroke of
\* its own for a supported name, so at most one call per keystroke is
\* outstanding; nothing cancels the call of an earlier keystroke.
C16_OneCallPerNameKeystroke ==
    /\ \A l \in inflight :
        /\ l.gen \in 1..gen
        /\ LET n == getSatsName(toLowerCase(l.inputAddress))
           IN  n.match /\ includes(SUPPORTED_DOMAINS, n.suffix)
    /\ \A l1, l2 \in inflight : l1.gen = l2.gen => l1 = l2
    /\ Cardinality(inflight) <= gen

\* three names typed in a row: three lookups in flight
C16_Witness == Cardinality(inflight) = 3 /\ gen = 3 /\ state.searching

\* C17: after the mount, the target last delivered to onAddressInputChange
\* agrees with the live state in address and in domain.
C17_DeliveredTargetAgreesWithState ==
    mounted =>
        /\ lastCall.address = state.validAddress
        /\ lastCall.domain = Payload(state).domain

\* C18: on mount, before any keystroke, onAddressInputChange has been invoked
\* once, with the address and the domain as supplied in addressInputData.
C18_MountDeliversSuppliedTarget ==
    (mounted /\ gen = 0) =>
        /\ calls = 1
        /\ lastCall.address = props.address
        /\ lastCall.domain = props.domain

====
